---- MODULE Spec2Model ----
(***************************************************************************)
(* autoUpdate (packages/dom/src/autoUpdate.ts): the scheduler that decides *)
(* when the position of a floating element has to be recomputed.           *)
(*                                                                         *)
(* The state is the closure of every autoUpdate call (its resolved         *)
(* options, ancestors, resizeObserver, initialUpdate, frameId,             *)
(* intersectionObserver, prevRefRect) together with the host registries    *)
(* the closure writes to: the DOM event-listener lists, the targets of the *)
(* ResizeObserver, the connected IntersectionObservers and the pending     *)
(* animation-frame requests.  One action per entry point of the program:   *)
(* the call of autoUpdate, the call of the returned cleanup function, and  *)
(* each host callback (scroll event, resize event, ResizeObserver          *)
(* callback, IntersectionObserver callback, animation frame).              *)
(***************************************************************************)
EXTENDS Integers, Sequences, FiniteSets, TLC

VARIABLES
    reference,            \* the reference argument: element or virtual element
    refRect,              \* the rectangle the reference currently occupies
    listeners,            \* DOM: registered event listeners
    phase,                \* per call: "absent", "fresh" (not yet called), "running"
    options,              \* per call: the resolved option flags (lines 45-52)
    update,               \* per call: the update callback that was passed
    ancestors,            \* per call: const ancestors (line 54)
    resizeObserver,       \* per call: let resizeObserver (line 72)
    initialUpdate,        \* per call: let initialUpdate (line 74)
    frameId,              \* per call: let frameId (line 89), 0 is null
    intersectionObserver, \* per call: let intersectionObserver (line 90)
    prevRefRect,          \* per call: let prevRefRect (line 91)
    observed,             \* host: targets of the call's ResizeObserver
    active,               \* host: targets with an undelivered size notification
    connected,            \* host: number of connected IntersectionObservers of the call
    frames,               \* host: pending animation-frame handles of the call
    calls,                \* per update function: how often it has been invoked
    disposals,            \* per call: how often the cleanup function has been called
    disposedFrom,         \* per call: where from ("outside" a callback, inside a "poller" update)
    changedSamples,       \* per call: poller samples that differ from their predecessor
    watcherFires,         \* per call: invocations of the ResizeObserver callback
    last,                 \* the entry point that ran last and the effects it had, in order
    error                 \* TRUE once a handler has thrown

vars == <<reference, refRect, listeners, phase, options, update, ancestors,
          resizeObserver, initialUpdate, frameId, intersectionObserver,
          prevRefRect, observed, active, connected, frames, calls, disposals,
          disposedFrom, changedSamples, watcherFires, last, error>>

----------------------------------------------------------------------------
(* Bounds of the model *)

MaxCalls == 2

MaxDisposals == 2

MaxHandles == 2

----------------------------------------------------------------------------
(* The values the program works on *)

Inst == {1, 2}

Fn == {"f", "g"}

Rect(x, y, w, h) == [x |-> x, y |-> y, width |-> w, height |-> h]

Rects == {Rect(0, 0, 10, 10), Rect(5, 0, 10, 10), Rect(0, 5, 10, 20), Rect(0, 0, 20, 10)}

NoRect == Rect(-1, -1, -1, -1)

OptionKeys == {"ancestorScroll", "ancestorResize", "elementResize", "animationFrame"}

PartialOptions == UNION {[S -> BOOLEAN] : S \in SUBSET OptionKeys}

NoOptions == [ancestorScrollOption |-> FALSE, ancestorScroll |-> FALSE,
              ancestorResize |-> FALSE, elementResize |-> FALSE,
              animationFrame |-> FALSE]

References == {[element |-> TRUE, contextElement |-> "null"],
               [element |-> FALSE, contextElement |-> "context"],
               [element |-> FALSE, contextElement |-> "null"]}

Range(s) == {s[k] : k \in 1..Len(s)}

----------------------------------------------------------------------------
(* Collaborators imported by autoUpdate.ts *)

isElement(r) == r.element

getOverflowAncestors(node) ==
    CASE node = "reference" -> <<"scroller", "window">>
      [] node = "context"   -> <<"scroller", "window">>
      [] node = "floating"  -> <<"panel", "window">>

getBoundingClientRect(W) == W.refRect

Callback(f) == [fn |-> f, id |-> 0]

addEventListener(L, node, type, cb, owner) ==
    IF \E l \in L : l.node = node /\ l.type = type /\ l.cb = cb
    THEN L
    ELSE L \cup {[node |-> node, type |-> type, cb |-> cb, owner |-> owner]}

removeEventListener(L, node, type, cb) ==
    {l \in L : ~(l.node = node /\ l.type = type /\ l.cb = cb)}

FreeHandles(W, i) == {h \in 1..MaxHandles : h \notin W.frames[i] /\ h # W.frameId[i]}

requestAnimationFrame(W, i) ==
    LET h == CHOOSE x \in FreeHandles(W, i) : \A y \in FreeHandles(W, i) : x <= y
    IN  [W EXCEPT !.frames[i] = @ \cup {h}, !.frameId[i] = h,
                  !.trace = Append(@, "requestAnimationFrame")]

cancelAnimationFrame(W, i, h) == [W EXCEPT !.frames[i] = @ \ {h}]

----------------------------------------------------------------------------
(* The returned cleanup function, lines 144-159 *)

RECURSIVE RemoveListeners(_, _, _)
RemoveListeners(W, i, k) ==
    IF k > Len(W.ancestors[i]) THEN W
    ELSE LET a  == W.ancestors[i][k]
             L1 == IF W.options[i].ancestorScroll
                   THEN removeEventListener(W.listeners, a, "scroll", Callback(W.update[i]))
                   ELSE W.listeners
             L2 == IF W.options[i].ancestorResize
                   THEN removeEventListener(L1, a, "resize", Callback(W.update[i]))
                   ELSE L1
         IN  RemoveListeners([W EXCEPT !.listeners = L2], i, k + 1)

\* The observer is disconnected and the slot keeps it.
DisconnectWatcherSlotKept(W, i) ==
    IF W.resizeObserver[i] # "null"
    THEN [W EXCEPT !.observed[i] = {}, !.active[i] = {}]
    ELSE W

\* resizeObserver.disconnect() without the ?. guard: throws on null.
DisconnectWatcherUnguarded(W, i) ==
    IF W.resizeObserver[i] # "null"
    THEN [W EXCEPT !.observed[i] = {}, !.active[i] = {}, !.resizeObserver[i] = "null"]
    ELSE [W EXCEPT !.error = TRUE]

DisconnectWatcher(W, i) ==
    IF W.resizeObserver[i] # "null"
    THEN [W EXCEPT !.observed[i] = {}, !.active[i] = {}, !.resizeObserver[i] = "null"]
    ELSE W

\* The slot is reset without disconnecting the observer.
DisconnectTriggerForgotten(W, i) ==
    IF W.intersectionObserver[i] # "null"
    THEN [W EXCEPT !.intersectionObserver[i] = "null"]
    ELSE W

DisconnectTrigger(W, i) ==
    IF W.intersectionObserver[i] # "null"
    THEN [W EXCEPT !.connected[i] = @ - 1, !.intersectionObserver[i] = "null",
                   !.trace = Append(@, "disconnect")]
    ELSE W

\* The cleanup function without its cancelAnimationFrame call.
CancelFrameForgotten(W, i) == W

CancelFrame(W, i) ==
    IF W.frameId[i] # 0 THEN cancelAnimationFrame(W, i, W.frameId[i]) ELSE W

cleanup(W, i, ctx) ==
    LET W1 == RemoveListeners(W, i, 1)
        W2 == DisconnectWatcher(W1, i)
        W3 == DisconnectTrigger(W2, i)
        W4 == CancelFrame(W3, i)
    IN  [W4 EXCEPT !.disposals[i] = @ + 1,
                   !.disposedFrom[i] = @ \cup ({ctx} \cap {"outside", "poller"}),
                   !.trace = Append(@, "cleanup")]

----------------------------------------------------------------------------
(* update(): the callback; it may call the cleanup function it was given   *)
(* once autoUpdate has returned it (d = TRUE).  The call site is recorded  *)
(* with the call: "setup", "callback" (listener or watcher) or "poller".   *)

UpdateFrom(ctx) ==
    CASE ctx = "setup"    -> "update (setup)"
      [] ctx = "callback" -> "update (callback)"
      [] ctx = "poller"   -> "update (poller)"

CallUpdate(W, i, d, ctx) ==
    LET W1 == [W EXCEPT !.calls[W.update[i]] = @ + 1,
                        !.trace = Append(@, UpdateFrom(ctx))]
    IN  IF d /\ W.phase[i] = "running" /\ W.disposals[i] < MaxDisposals
        THEN cleanup(W1, i, ctx)
        ELSE W1

----------------------------------------------------------------------------
(* frameLoop, lines 97-140 *)

\* The comparison without the x test.
triggerChangedNoX(prev, next) ==
    /\ prev # NoRect
    /\ \/ next.y # prev.y
       \/ next.width # prev.width
       \/ next.height # prev.height

triggerChanged(prev, next) ==
    /\ prev # NoRect
    /\ \/ next.x # prev.x
       \/ next.y # prev.y
       \/ next.width # prev.width
       \/ next.height # prev.height

\* The comparison without the test that a previous rectangle exists.
directChangedNoPrevTest(prev, next) ==
    \/ next.x # prev.x
    \/ next.y # prev.y
    \/ next.width # prev.width
    \/ next.height # prev.height

\* The comparison of the direct path without the width test.
directChangedNoWidth(prev, next) ==
    /\ prev # NoRect
    /\ \/ next.x # prev.x
       \/ next.y # prev.y
       \/ next.height # prev.height

directChanged(prev, next) ==
    /\ prev # NoRect
    /\ \/ next.x # prev.x
       \/ next.y # prev.y
       \/ next.width # prev.width
       \/ next.height # prev.height

\* A sample of the reference rectangle reaches the compare step: recorded as
\* the first one, as equal to its predecessor, or as different from it.
Sampled(W, i, next) ==
    LET prev == W.prevRefRect[i]
    IN  [W EXCEPT !.trace = Append(@, IF prev = NoRect THEN "sample (first)"
                                      ELSE IF prev = next THEN "sample (same)"
                                      ELSE "sample (changed)"),
                  !.changedSamples[i] = IF prev # NoRect /\ prev # next THEN @ + 1 ELSE @]

\* The callback with the disconnect moved to the front.
TriggerCallbackDisconnectFirst(W, i, entries, d) ==
    IF entries = <<>> THEN W
    ELSE LET nextRefRect == entries[1].boundingClientRect
             W0 == DisconnectTrigger(W, i)
             W1 == Sampled(W0, i, nextRefRect)
             W2 == IF triggerChanged(W1.prevRefRect[i], nextRefRect)
                   THEN CallUpdate(W1, i, d, "poller") ELSE W1
             W3 == [W2 EXCEPT !.prevRefRect[i] = nextRefRect]
         IN  requestAnimationFrame(W3, i)

TriggerCallback(W, i, entries, d) ==
    IF entries = <<>> THEN W
    ELSE LET nextRefRect == entries[1].boundingClientRect
             W1 == Sampled(W, i, nextRefRect)
             W2 == IF triggerChanged(W1.prevRefRect[i], nextRefRect)
                   THEN CallUpdate(W1, i, d, "poller") ELSE W1
             W3 == [W2 EXCEPT !.prevRefRect[i] = nextRefRect]
             W4 == requestAnimationFrame(W3, i)
         IN  DisconnectTrigger(W4, i)

\* The branch with the frame requested only after a change.
DirectSampleRequestOnChange(W, i, d) ==
    LET nextRefRect == getBoundingClientRect(W)
        W1 == Sampled(W, i, nextRefRect)
        changed == directChanged(W1.prevRefRect[i], nextRefRect)
        W2 == IF changed THEN CallUpdate(W1, i, d, "poller") ELSE W1
        W3 == [W2 EXCEPT !.prevRefRect[i] = nextRefRect]
    IN  IF changed THEN requestAnimationFrame(W3, i) ELSE W3

\* The branch of frameLoop for a reference that is no element, lines 125-138.
DirectSample(W, i, d) ==
    LET nextRefRect == getBoundingClientRect(W)
        W1 == Sampled(W, i, nextRefRect)
        W2 == IF directChanged(W1.prevRefRect[i], nextRefRect)
              THEN CallUpdate(W1, i, d, "poller") ELSE W1
        W3 == [W2 EXCEPT !.prevRefRect[i] = nextRefRect]
    IN  requestAnimationFrame(W3, i)

frameLoop(W, i, d) ==
    IF isElement(W.reference)
    THEN [W EXCEPT !.intersectionObserver[i] = "io", !.connected[i] = @ + 1,
                   !.trace = Append(@, "observe")]
    ELSE DirectSample(W, i, d)

----------------------------------------------------------------------------
(* autoUpdate, lines 39-143 *)

Default(o, key, dflt) == IF key \in DOMAIN o THEN o[key] ELSE dflt

\* ancestorScroll without the "&& !animationFrame".
AncestorScrollAsGiven(ancestorScrollOption, animationFrame) == ancestorScrollOption

EffectiveAncestorScroll(ancestorScrollOption, animationFrame) ==
    ancestorScrollOption /\ ~animationFrame

ResolveOptions(o) ==
    [ancestorScrollOption |-> Default(o, "ancestorScroll", TRUE),
     ancestorScroll |-> EffectiveAncestorScroll(Default(o, "ancestorScroll", TRUE),
                                                Default(o, "animationFrame", FALSE)),
     ancestorResize |-> Default(o, "ancestorResize", TRUE),
     elementResize  |-> Default(o, "elementResize", TRUE),
     animationFrame |-> Default(o, "animationFrame", FALSE)]

\* The reference side of the ancestors taken whatever the reference is.
ReferenceAncestorsAlways(r) == getOverflowAncestors("reference")

ReferenceAncestors(r) ==
    IF isElement(r) THEN getOverflowAncestors("reference")
    ELSE IF r.contextElement # "null" THEN getOverflowAncestors(r.contextElement)
    ELSE <<>>

\* The ancestors collected for the scroll listeners alone.
AncestorsScrollOnly(r, opt) ==
    IF opt.ancestorScroll
    THEN ReferenceAncestors(r) \o getOverflowAncestors("floating")
    ELSE <<>>

Ancestors(r, opt) ==
    IF opt.ancestorScroll \/ opt.ancestorResize
    THEN ReferenceAncestors(r) \o getOverflowAncestors("floating")
    ELSE <<>>

\* A new closure around update for every ancestor instead of update itself.
RegisteredWrapped(f, k) == [fn |-> f, id |-> k]

Registered(f, k) == Callback(f)

RECURSIVE AddListeners(_, _, _)
AddListeners(W, i, k) ==
    IF k > Len(W.ancestors[i]) THEN W
    ELSE LET a  == W.ancestors[i][k]
             L1 == IF W.options[i].ancestorScroll
                   THEN addEventListener(W.listeners, a, "scroll", Registered(W.update[i], k), i)
                   ELSE W.listeners
             L2 == IF W.options[i].ancestorResize
                   THEN addEventListener(L1, a, "resize", Registered(W.update[i], k), i)
                   ELSE L1
         IN  AddListeners([W EXCEPT !.listeners = L2], i, k + 1)

\* The targets without the contextElement of a virtual reference.
WatcherTargetsNoContext(r, opt) ==
    (IF isElement(r) /\ ~opt.animationFrame THEN {"reference"} ELSE {})
    \cup {"floating"}

WatcherTargets(r, opt) ==
    (IF isElement(r) /\ ~opt.animationFrame THEN {"reference"} ELSE {})
    \cup (IF ~isElement(r) /\ r.contextElement # "null" /\ ~opt.animationFrame
          THEN {r.contextElement} ELSE {})
    \cup {"floating"}

\* let initialUpdate = false.
InitialUpdateUnset == FALSE

InitialUpdateFlag == TRUE

CreateWatcher(W, i) ==
    IF W.options[i].elementResize
    THEN LET T == WatcherTargets(W.reference, W.options[i])
         IN  [W EXCEPT !.resizeObserver[i] = "ro", !.initialUpdate[i] = InitialUpdateFlag,
                       !.observed[i] = T, !.active[i] = T]
    ELSE W

\* The callback without the reset of the flag.
WatcherCallbackFlagKept(W, i, d) ==
    IF ~W.initialUpdate[i] THEN CallUpdate(W, i, d, "callback") ELSE W

WatcherCallback(W, i, d) ==
    LET W1 == IF ~W.initialUpdate[i] THEN CallUpdate(W, i, d, "callback") ELSE W
    IN  [W1 EXCEPT !.initialUpdate[i] = FALSE]

autoUpdateUpdateFirst(W, i, o, f) ==
    LET opt == ResolveOptions(o)
        W1  == [W EXCEPT !.options[i] = opt, !.update[i] = f,
                         !.ancestors[i] = Ancestors(W.reference, opt)]
        W2  == AddListeners(W1, i, 1)
        W3  == CreateWatcher(W2, i)
        W4  == CallUpdate(W3, i, FALSE, "setup")
        W5  == IF opt.animationFrame THEN frameLoop(W4, i, FALSE) ELSE W4
    IN  [W5 EXCEPT !.phase[i] = "running"]

autoUpdate(W, i, o, f) ==
    LET opt == ResolveOptions(o)
        W1  == [W EXCEPT !.options[i] = opt, !.update[i] = f,
                         !.ancestors[i] = Ancestors(W.reference, opt)]
        W2  == AddListeners(W1, i, 1)
        W3  == CreateWatcher(W2, i)
        W4  == IF opt.animationFrame THEN frameLoop(W3, i, FALSE) ELSE W3
        W5  == CallUpdate(W4, i, FALSE, "setup")
    IN  [W5 EXCEPT !.phase[i] = "running"]

----------------------------------------------------------------------------
(* The host's event dispatch: every listener registered on the node for    *)
(* the event type when the dispatch starts is invoked, unless it has been  *)
(* removed in the meantime.                                                *)

RECURSIVE Dispatch(_, _, _)
Dispatch(W, todo, d) ==
    IF todo = {} THEN W
    ELSE LET l  == CHOOSE x \in todo : \A y \in todo : x.owner <= y.owner
             W1 == IF l \in W.listeners
                   THEN CallUpdate(W, l.owner, d, "callback")
                   ELSE W
         IN  Dispatch(W1, todo \ {l}, d)

----------------------------------------------------------------------------
(* The state as one record, and its installation as the next state *)

Here ==
    [reference |-> reference, refRect |-> refRect, listeners |-> listeners,
     phase |-> phase, options |-> options, update |-> update,
     ancestors |-> ancestors, resizeObserver |-> resizeObserver,
     initialUpdate |-> initialUpdate, frameId |-> frameId,
     intersectionObserver |-> intersectionObserver, prevRefRect |-> prevRefRect,
     observed |-> observed, active |-> active, connected |-> connected,
     frames |-> frames, calls |-> calls, disposals |-> disposals,
     disposedFrom |-> disposedFrom,
     changedSamples |-> changedSamples, watcherFires |-> watcherFires,
     error |-> error, trace |-> <<>>]

Bounded(W) ==
    /\ \A f \in Fn : W.calls[f] <= MaxCalls
    /\ \A i \in Inst : /\ W.changedSamples[i] <= MaxCalls
                       /\ W.watcherFires[i] <= MaxCalls
                       /\ W.connected[i] <= MaxHandles

Apply(W) ==
    \E w \in {W} :
        /\ Bounded(w)
        /\ reference' = w.reference
        /\ refRect' = w.refRect
        /\ listeners' = w.listeners
        /\ phase' = w.phase
        /\ options' = w.options
        /\ update' = w.update
        /\ ancestors' = w.ancestors
        /\ resizeObserver' = w.resizeObserver
        /\ initialUpdate' = w.initialUpdate
        /\ frameId' = w.frameId
        /\ intersectionObserver' = w.intersectionObserver
        /\ prevRefRect' = w.prevRefRect
        /\ observed' = w.observed
        /\ active' = w.active
        /\ connected' = w.connected
        /\ frames' = w.frames
        /\ calls' = w.calls
        /\ disposals' = w.disposals
        /\ disposedFrom' = w.disposedFrom
        /\ changedSamples' = w.changedSamples
        /\ watcherFires' = w.watcherFires
        /\ error' = w.error

\* A handler of the program ran: the next state, and the record of the run.
Install(W, op, arg) ==
    /\ Apply(W)
    /\ last' = [op |-> op, arg |-> arg, trace |-> W.trace]

\* The environment changed: no handler ran.
Environment(W) ==
    /\ Apply(W)
    /\ UNCHANGED last

----------------------------------------------------------------------------
(* Initial states: no autoUpdate call has been made yet *)

InitWith(callers) ==
    /\ reference \in References
    /\ refRect = Rect(0, 0, 10, 10)
    /\ listeners = {}
    /\ phase = [i \in Inst |-> IF i \in callers THEN "fresh" ELSE "absent"]
    /\ options = [i \in Inst |-> NoOptions]
    /\ update = [i \in Inst |-> "f"]
    /\ ancestors = [i \in Inst |-> <<>>]
    /\ resizeObserver = [i \in Inst |-> "null"]
    /\ initialUpdate = [i \in Inst |-> FALSE]
    /\ frameId = [i \in Inst |-> 0]
    /\ intersectionObserver = [i \in Inst |-> "null"]
    /\ prevRefRect = [i \in Inst |-> NoRect]
    /\ observed = [i \in Inst |-> {}]
    /\ active = [i \in Inst |-> {}]
    /\ connected = [i \in Inst |-> 0]
    /\ frames = [i \in Inst |-> {}]
    /\ calls = [f \in Fn |-> 0]
    /\ disposals = [i \in Inst |-> 0]
    /\ disposedFrom = [i \in Inst |-> {}]
    /\ changedSamples = [i \in Inst |-> 0]
    /\ watcherFires = [i \in Inst |-> 0]
    /\ last = [op |-> "init", arg |-> "", trace |-> <<>>]
    /\ error = FALSE

Init == InitWith({1})

----------------------------------------------------------------------------
(* Actions *)

\* The options a call is given: any partial record when one call is made; when
\* two calls are made on the same pair, any that leaves frame polling off.
OptionsGiven ==
    IF \E i \in Inst : phase[i] = "absent"
    THEN PartialOptions
    ELSE {o \in PartialOptions : "animationFrame" \notin DOMAIN o}

\* autoUpdate(reference, floating, update, options): the first call passes f,
\* a second call passes the same function or another one.
Start(i) ==
    /\ phase[i] = "fresh"
    /\ \E o \in OptionsGiven, f \in (IF i = 1 THEN {"f"} ELSE Fn) :
          Install(autoUpdate(Here, i, o, f), "autoUpdate", "")

\* The caller invokes the returned cleanup function, outside any callback.
Dispose(i) ==
    /\ phase[i] = "running"
    /\ disposals[i] < MaxDisposals
    /\ Install(cleanup(Here, i, "outside"), "cleanup", "")

\* The nodes events are dispatched on: the overflow ancestors of the pair.
Nodes == {"scroller", "panel", "window"}

\* What an event target is to the calls made: an ancestor, an ancestor that
\* occurs more than once in the ancestors of one call, or neither.
Target(a) ==
    IF \E i \in Inst : \E j, k \in 1..Len(ancestors[i]) :
          j # k /\ ancestors[i][j] = a /\ ancestors[i][k] = a
    THEN "repeated ancestor"
    ELSE IF \E i \in Inst : a \in Range(ancestors[i]) THEN "ancestor" ELSE "other"

\* The host dispatches a scroll event on a node.
Scroll(a) ==
    /\ a \in Nodes
    /\ \E d \in BOOLEAN :
          Install(Dispatch(Here, {l \in listeners : l.node = a /\ l.type = "scroll"}, d),
                  "scroll", Target(a))

\* The host dispatches a resize event on a node.
Resize(a) ==
    /\ a \in Nodes
    /\ \E d \in BOOLEAN :
          Install(Dispatch(Here, {l \in listeners : l.node = a /\ l.type = "resize"}, d),
                  "resize", Target(a))

\* The host delivers the pending size notifications of a ResizeObserver in
\* one invocation of its callback.
WatcherNotify(i) ==
    /\ active[i] # {}
    /\ \E d \in BOOLEAN :
          Install(WatcherCallback([Here EXCEPT !.active[i] = {},
                                               !.watcherFires[i] = @ + 1], i, d),
                  "resizeObserver", "")

\* The host invokes the callback of a connected IntersectionObserver with a
\* list of entries.
TriggerNotifyWith(i, entries) ==
    /\ connected[i] > 0
    /\ FreeHandles(Here, i) # {}
    /\ \E d \in BOOLEAN :
          Install(TriggerCallback(Here, i, entries, d), "intersectionObserver", "")

\* The entry the host computes for the observed reference.
ReferenceEntry == <<[boundingClientRect |-> refRect]>>

\* The callback is invoked with the entry of the reference, or with no entry.
TriggerNotify(i) ==
    \/ TriggerNotifyWith(i, ReferenceEntry)
    \/ TriggerNotifyWith(i, <<>>)

\* The host runs a pending animation-frame callback.
AnimationFrame(i) ==
    \E h \in frames[i], d \in BOOLEAN :
       LET W == [Here EXCEPT !.frames[i] = @ \ {h}]
       IN  /\ isElement(reference) \/ FreeHandles(W, i) # {}
           /\ Install(frameLoop(W, i, d), "animationFrame", "")

\* The reference moves or changes size on screen (followed from the moment a
\* call polls its rectangle; nothing else reads it).
ReferenceMoved(r) ==
    /\ r # refRect
    /\ \E i \in Inst : options[i].animationFrame
    /\ LET resized == isElement(reference)
                        /\ (r.width # refRect.width \/ r.height # refRect.height)
       IN  Environment([Here EXCEPT !.refRect = r,
                                    !.active = [i \in Inst |->
                                        IF resized /\ "reference" \in observed[i]
                                        THEN active[i] \cup {"reference"} ELSE active[i]]])

\* The content box of an observed element changes size.
ElementResized(n) ==
    /\ \E i \in Inst : n \in observed[i]
    /\ Environment([Here EXCEPT !.active = [i \in Inst |->
                                    IF n \in observed[i] THEN active[i] \cup {n}
                                    ELSE active[i]]])

Next ==
    \/ \E i \in Inst : Start(i)
    \/ \E i \in Inst : Dispose(i)
    \/ \E a \in Nodes : Scroll(a)
    \/ \E a \in Nodes : Resize(a)
    \/ \E i \in Inst : WatcherNotify(i)
    \/ \E i \in Inst : TriggerNotify(i)
    \/ \E i \in Inst : AnimationFrame(i)
    \/ \E r \in Rects : ReferenceMoved(r)
    \/ \E n \in {"reference", "context", "floating"} : ElementResized(n)

Spec == Init /\ [][Next]_vars

(* One call that polls the rectangle of the reference on animation frames *)

\* The options of such a call: animationFrame is true, elementResize is given
\* or left out, the listener options are left to their defaults.
PollingOptions ==
    {o \in PartialOptions : /\ DOMAIN o \subseteq {"animationFrame", "elementResize"}
                            /\ "animationFrame" \in DOMAIN o
                            /\ o["animationFrame"]}

\* autoUpdate(reference, floating, update, {..., animationFrame: true}).
StartPolling(i) ==
    /\ phase[i] = "fresh"
    /\ \E o \in PollingOptions :
          Install(autoUpdate(Here, i, o, "f"), "autoUpdate", "")

NextLive ==
    \/ StartPolling(1)
    \/ Dispose(1)
    \/ TriggerNotify(1)
    \/ AnimationFrame(1)
    \/ \E r \in Rects : ReferenceMoved(r)

\* The call is in use: not disposed of, and update may still be called.
Going == disposals[1] = 0 /\ calls["f"] < MaxCalls

\* While the call is in use, the host runs every pending animation-frame
\* callback and delivers the entry of the observed reference to every
\* connected IntersectionObserver.
HostDelivers ==
    /\ WF_vars(Going /\ AnimationFrame(1))
    /\ WF_vars(Going /\ TriggerNotifyWith(1, ReferenceEntry))

SpecLive == Init /\ [][NextLive]_vars /\ HostDelivers

(* Two calls on the same reference/floating pair, without frame polling *)

InitPair == InitWith({1, 2})

NextPair ==
    \/ \E i \in Inst : Start(i)
    \/ \E i \in Inst : Dispose(i)
    \/ \E a \in Nodes : Scroll(a)
    \/ \E a \in Nodes : Resize(a)
    \/ \E i \in Inst : WatcherNotify(i)
    \/ \E n \in {"reference", "context", "floating"} : ElementResized(n)

SpecPair == InitPair /\ [][NextPair]_vars

----------------------------------------------------------------------------
(* Vocabulary of the properties *)

Updates(t) == Cardinality({k \in 1..Len(t) : t[k] \in {"update (setup)", "update (callback)", "update (poller)"}})

PollerUpdates(t) == Cardinality({k \in 1..Len(t) : t[k] = "update (poller)"})

Running(i) == phase[i] = "running"

DefaultOptions(i) ==
    /\ options[i].ancestorScrollOption
    /\ options[i].ancestorResize
    /\ options[i].elementResize
    /\ ~options[i].animationFrame

OnlyPoller(i) ==
    /\ options[i].animationFrame
    /\ ~options[i].ancestorResize
    /\ ~options[i].elementResize

OnlyWatcher(i) ==
    /\ options[i].elementResize
    /\ ~options[i].animationFrame
    /\ ~options[i].ancestorScrollOption
    /\ ~options[i].ancestorResize

EffectiveElement == IF isElement(reference) THEN "reference" ELSE reference.contextElement

OwnListeners(i) == {l \in listeners : l.owner = i}

Registrations(i) ==
    [listeners |-> OwnListeners(i), observed |-> observed[i], active |-> active[i],
     connected |-> connected[i], frames |-> frames[i],
     resizeObserver |-> resizeObserver[i],
     intersectionObserver |-> intersectionObserver[i]]

----------------------------------------------------------------------------
(* Properties *)

\* C1: once the cleanup function has been called from outside any callback,
\* no step increases the number of update calls: no scroll or resize event,
\* no ResizeObserver or IntersectionObserver callback and no animation frame
\* of the call invokes update any more.
C1_NoUpdateAfterCleanup ==
    [][ "outside" \in disposedFrom[1] => calls' = calls ]_vars

\* C1 witness: a scroll event was dispatched on an ancestor that carried a
\* scroll listener of the call, after a cleanup from outside.
C1_Witness ==
    /\ "outside" \in disposedFrom[1]
    /\ options[1].ancestorScroll
    /\ last.op = "scroll"
    /\ last.arg # "other"

\* C2: when autoUpdate returns it has invoked update exactly once, whatever
\* the options and the shape of the reference, the poller's first iteration
\* included.
C2_SetupCallsUpdateOnce ==
    last.op = "autoUpdate" => /\ Updates(last.trace) = 1
                              /\ calls[update[1]] = 1

\* C2 witness: autoUpdate returned for a virtual reference with animationFrame,
\* so frameLoop took its first sample during setup.
C2_Witness ==
    /\ last.op = "autoUpdate"
    /\ options[1].animationFrame
    /\ ~isElement(reference)
    /\ "sample (first)" \in Range(last.trace)

\* C3: a handler in which the poller samples the rectangle calls update from
\* the poller exactly once if the sample differs from the preceding one, and
\* not at all for a first or an equal sample; with only the poller active the
\* number of update calls is 1 plus the number of samples that differed.
C3_PollerUpdatesIffChanged ==
    /\ "sample (changed)" \in Range(last.trace) => PollerUpdates(last.trace) = 1
    /\ "sample (changed)" \notin Range(last.trace) => PollerUpdates(last.trace) = 0
    /\ Running(1) /\ OnlyPoller(1) => calls[update[1]] = 1 + changedSamples[1]

\* C3 witness: with only the poller active, one sample differed (two update
\* calls in all) and the latest sample was equal to its predecessor.
C3_Witness ==
    /\ Running(1) /\ OnlyPoller(1)
    /\ changedSamples[1] = 1
    /\ calls[update[1]] = 2
    /\ "sample (same)" \in Range(last.trace)

\* C4 (as claimed): a running call that has not been cleaned up keeps a scroll
\* listener and a resize listener with its update function on each of its
\* ancestors (as its flags ask), whatever happens to the other call.
C4_SurvivorKeepsListeners ==
    \A i \in Inst :
       Running(i) /\ disposals[i] = 0 =>
          \A k \in 1..Len(ancestors[i]) :
             /\ options[i].ancestorScroll =>
                   \E l \in listeners : /\ l.node = ancestors[i][k]
                                        /\ l.type = "scroll"
                                        /\ l.cb.fn = update[i]
             /\ options[i].ancestorResize =>
                   \E l \in listeners : /\ l.node = ancestors[i][k]
                                        /\ l.type = "resize"
                                        /\ l.cb.fn = update[i]

\* C5: with animationFrame true the call owns no scroll listener, the
\* reference's effective element is not a target of its ResizeObserver, and a
\* scroll event invokes update zero times.
C5_PollingExcludesScrollAndReference ==
    options[1].animationFrame =>
       /\ \A l \in OwnListeners(1) : l.type # "scroll"
       /\ EffectiveElement \notin observed[1]
       /\ last.op = "scroll" => Updates(last.trace) = 0

\* C5 witness: animationFrame with ancestorScroll and elementResize given as
\* true, a reference that has an effective element, and a scroll event
\* dispatched on one of the call's ancestors while it runs.
C5_Witness ==
    /\ Running(1) /\ disposals[1] = 0
    /\ options[1].animationFrame
    /\ options[1].ancestorScrollOption
    /\ options[1].elementResize
    /\ EffectiveElement # "null"
    /\ last.op = "scroll"
    /\ last.arg # "other"

\* C6: with elementResize true and animationFrame false, the first invocation
\* of the ResizeObserver callback (which delivers the initial firings of all
\* observed nodes) invokes update zero times; when the watcher is the only
\* mechanism, update has been called exactly once until a second invocation.
C6_InitialFiringIsSilent ==
    options[1].elementResize /\ ~options[1].animationFrame =>
       /\ last.op = "resizeObserver" /\ watcherFires[1] = 1 => Updates(last.trace) = 0
       /\ Running(1) /\ OnlyWatcher(1) /\ watcherFires[1] <= 1 => calls[update[1]] = 1

\* C6 witness: the initial firings of the reference and the floating element
\* have been delivered and nothing is left to deliver.
C6_Witness ==
    /\ OnlyWatcher(1)
    /\ isElement(reference)
    /\ observed[1] = {"reference", "floating"}
    /\ last.op = "resizeObserver"
    /\ watcherFires[1] = 1
    /\ active[1] = {}

\* C7: with a concrete reference and default options, each ancestor carries at
\* most one scroll and one resize listener of the call, and a scroll event on
\* an ancestor of the running call invokes update exactly once.
C7_OneUpdatePerScroll ==
    isElement(reference) /\ DefaultOptions(1) =>
       /\ \A a \in Nodes : \A t \in {"scroll", "resize"} :
             Cardinality({l \in OwnListeners(1) : l.node = a /\ l.type = t}) <= 1
       /\ last.op = "scroll" /\ last.arg # "other" /\ disposals[1] = 0
             => Updates(last.trace) = 1

\* C7 witness: a scroll event on the ancestor that occurs twice in the
\* ancestors (the window) has been handled by the running call.
C7_Witness ==
    /\ isElement(reference) /\ DefaultOptions(1)
    /\ disposals[1] = 0
    /\ last.op = "scroll"
    /\ last.arg = "repeated ancestor"
    /\ calls[update[1]] = 2

\* C8: a call of the cleanup function from outside never throws, and a call
\* that follows another one leaves the registrations of the call as they were.
C8_CleanupIdempotent ==
    [][ disposals'[1] = disposals[1] + 1 /\ last'.op = "cleanup" =>
           /\ ~error'
           /\ last.op = "cleanup" => Registrations(1)' = Registrations(1) ]_vars

\* C8 witness: the cleanup function has been called twice for a call that
\* created no watcher, no trigger, no frame request and no listener.
C8_Witness ==
    /\ disposals[1] = 2
    /\ last.op = "cleanup"
    /\ ~options[1].elementResize
    /\ ~options[1].animationFrame
    /\ ancestors[1] = <<>>
    /\ ~error

\* C9: with a virtual reference without contextElement and default options,
\* the ancestors are those of the floating element alone, listeners sit on
\* these nodes only, and the ResizeObserver observes the floating element only.
C9_VirtualReferenceHasNoSide ==
    Running(1) /\ ~isElement(reference) /\ reference.contextElement = "null"
       /\ DefaultOptions(1) =>
       /\ ancestors[1] = getOverflowAncestors("floating")
       /\ {l.node : l \in OwnListeners(1)} \subseteq Range(getOverflowAncestors("floating"))
       /\ observed[1] \subseteq {"floating"}
       /\ disposals[1] = 0 =>
             /\ {l.node : l \in OwnListeners(1)} = Range(getOverflowAncestors("floating"))
             /\ observed[1] = {"floating"}

\* C9 witness: such a call is running and has handled a scroll event on a
\* node that only the reference side would have contributed.
C9_Witness ==
    /\ Running(1) /\ ~isElement(reference) /\ reference.contextElement = "null"
    /\ DefaultOptions(1)
    /\ disposals[1] = 0
    /\ last.op = "scroll"
    /\ last.arg = "other"

\* C10 (as claimed): once the cleanup function has been called from inside an
\* update call made by the poller, no animation frame of the call is pending
\* and no trigger is connected when that handler has returned.
C10_ReentrantCleanupStopsPoller ==
    "poller" \in disposedFrom[1] => /\ frames[1] = {}
                                    /\ connected[1] = 0

\* C11 (as claimed): every invocation of the trigger callback, whatever its
\* entry list, requests the next animation frame.
C11_EveryCallbackReschedules ==
    last.op = "intersectionObserver" => "requestAnimationFrame" \in Range(last.trace)

Polling == Running(1) /\ options[1].animationFrame

Stopped == ~Going

\* C11 (amended): every handler in which the poller takes a sample requests
\* the next animation frame, an invocation of the trigger callback without an
\* entry takes no sample, requests no frame and leaves the trigger connected;
\* and while the call is in use, the frame request held in frameId is
\* eventually replaced by that of a later sample which stored the rectangle
\* the reference then had.
C11_PollerKeepsSampling ==
    /\ [](\A k \in 1..Len(last.trace) :
             last.trace[k] \in {"sample (first)", "sample (same)", "sample (changed)"}
                => "requestAnimationFrame" \in Range(last.trace))
    /\ [](last.op = "intersectionObserver" /\ last.trace = <<>> /\ disposals[1] = 0
             => connected[1] = 1 /\ frames[1] = {})
    /\ \A h \in 0..MaxHandles :
          (Polling /\ frameId[1] = h)
             ~> ((frameId[1] # h /\ prevRefRect[1] = refRect) \/ Stopped)

\* C11 witness: the poller runs, the trigger callback was invoked without an
\* entry after an earlier sample, and the reference has moved since.
C11_Witness ==
    /\ Polling /\ disposals[1] = 0
    /\ last.op = "intersectionObserver" /\ last.trace = <<>>
    /\ prevRefRect[1] # NoRect
    /\ prevRefRect[1] # refRect

----------------------------------------------------------------------------
(* Order of the effects of one handler *)

SampleLabels == {"sample (first)", "sample (same)", "sample (changed)"}

\* The positions in an effect trace at which the poller takes a sample.
Samples(t) == {k \in 1..Len(t) : t[k] \in SampleLabels}

\* The positions in an effect trace of one effect.
Positions(t, e) == {k \in 1..Len(t) : t[k] = e}

\* Every occurrence of effect a in the trace is before every sample.
BeforeSamples(t, a) == \A j \in Positions(t, a), k \in Samples(t) : j < k

\* C12 (as claimed): with animationFrame true, no sample of the reference
\* rectangle is taken before the initial update call of autoUpdate.
C12_InitialUpdateBeforeFirstSample ==
    last.op = "autoUpdate" /\ options[1].animationFrame
       => BeforeSamples(last.trace, "update (setup)")

\* C12 (amended): with animationFrame true, autoUpdate on a reference that is
\* an element takes no sample: it connects the trigger and calls update once,
\* so the initial update precedes the first sample; on a virtual reference
\* the call of frameLoop takes the first sample, stores it without calling
\* update and requests a frame, and only then is the initial update called.
C12_SetupOrder ==
    last.op = "autoUpdate" /\ options[1].animationFrame
       => /\ isElement(reference)
                => /\ last.trace = <<"observe", "update (setup)">>
                   /\ prevRefRect[1] = NoRect
          /\ ~isElement(reference)
                => /\ last.trace = <<"sample (first)", "requestAnimationFrame",
                                     "update (setup)">>
                   /\ prevRefRect[1] # NoRect
          /\ calls["f"] = 1

\* C12 witness: autoUpdate has just returned for a polled virtual reference,
\* with a sample taken during setup.
C12_Witness ==
    /\ last.op = "autoUpdate" /\ options[1].animationFrame
    /\ ~isElement(reference)
    /\ Samples(last.trace) # {}

\* C13: one flag serves all observed nodes: the first invocation of the
\* ResizeObserver callback calls update zero times and every later one exactly
\* once, whichever nodes it reports and whether or not the poller runs; when
\* the watcher is the only mechanism, after n >= 1 invocations update has been
\* called n times in all, once by setup and n - 1 times by the watcher.
C13_WatcherSkipsOnlyFirstInvocation ==
    /\ last.op = "resizeObserver"
          => Updates(last.trace) = (IF watcherFires[1] = 1 THEN 0 ELSE 1)
    /\ Running(1) /\ OnlyWatcher(1) /\ watcherFires[1] >= 1
          => calls[update[1]] = watcherFires[1]

\* C13 witness: the watcher being the only mechanism, its callback has run a
\* second time and called update.
C13_Witness ==
    /\ OnlyWatcher(1)
    /\ disposals[1] = 0
    /\ last.op = "resizeObserver"
    /\ watcherFires[1] = 2
    /\ last.trace = <<"update (callback)">>

\* The listeners of a call for one type of event.
ListenersOf(i, type) == {l \in OwnListeners(i) : l.type = type}

\* C14: in whatever options the call is given, an omitted flag counts as its
\* default (true, true, true, false), and
\* while the call runs undisposed each mechanism is registered iff its flag
\* says so: scroll listeners iff ancestorScroll and not animationFrame, resize
\* listeners iff ancestorResize, a ResizeObserver with targets iff
\* elementResize, a trigger or frame request iff animationFrame; an event on
\* an ancestor calls update once if its listener is enabled and never
\* otherwise, and a watcher or poller callback runs only if enabled.
C14_SourcesFollowFlags ==
    /\ phase[1] = "fresh" => \A o \in PartialOptions :
          LET opt == ResolveOptions(o)
              given(key, dflt) == IF key \in DOMAIN o THEN o[key] ELSE dflt
          IN  /\ opt.ancestorScrollOption = given("ancestorScroll", TRUE)
              /\ opt.ancestorResize = given("ancestorResize", TRUE)
              /\ opt.elementResize = given("elementResize", TRUE)
              /\ opt.animationFrame = given("animationFrame", FALSE)
    /\ Running(1) /\ disposals[1] = 0 =>
          LET opt    == options[1]
              scroll == opt.ancestorScrollOption /\ ~opt.animationFrame
          IN  /\ ListenersOf(1, "scroll") # {} <=> scroll
              /\ ListenersOf(1, "resize") # {} <=> opt.ancestorResize
              /\ resizeObserver[1] # "null" <=> opt.elementResize
              /\ observed[1] # {} <=> opt.elementResize
              /\ (connected[1] > 0 \/ frames[1] # {}) <=> opt.animationFrame
              /\ intersectionObserver[1] # "null" => opt.animationFrame
              /\ last.op = "scroll"
                    => Updates(last.trace) = (IF scroll /\ last.arg # "other" THEN 1 ELSE 0)
              /\ last.op = "resize"
                    => Updates(last.trace)
                          = (IF opt.ancestorResize /\ last.arg # "other" THEN 1 ELSE 0)
              /\ last.op = "resizeObserver" => opt.elementResize
              /\ last.op \in {"intersectionObserver", "animationFrame"} => opt.animationFrame

\* C14 witness: with animationFrame and ancestorResize true, a resize event on
\* an ancestor has called update once while the poller waits.
C14_Witness ==
    /\ Running(1) /\ disposals[1] = 0
    /\ options[1].animationFrame /\ options[1].ancestorResize
    /\ options[1].ancestorScrollOption
    /\ last.op = "resize" /\ last.arg # "other"
    /\ Updates(last.trace) = 1
    /\ ListenersOf(1, "scroll") = {}

\* C15 (as claimed): once the cleanup function has been called, at whatever
\* point after setup, the call has no scroll or resize listener left, its
\* ResizeObserver observes nothing, no trigger of the call is connected and no
\* animation-frame request of the call is pending.
C15_NothingLeftAfterCleanup ==
    disposals[1] > 0 =>
       /\ OwnListeners(1) = {}
       /\ observed[1] = {} /\ active[1] = {}
       /\ connected[1] = 0
       /\ frames[1] = {}

\* C16: while the call runs undisposed, with elementResize true its
\* ResizeObserver observes exactly the floating element and, iff
\* animationFrame is false, the effective element of the reference (the
\* reference if an element, else its contextElement if it has one); with
\* elementResize false there is no ResizeObserver and nothing is observed.
C16_WatcherTargets ==
    Running(1) /\ disposals[1] = 0 =>
       IF options[1].elementResize
       THEN /\ resizeObserver[1] # "null"
            /\ "floating" \in observed[1]
            /\ \A n \in {"reference", "context"} :
                  n \in observed[1] <=> (~options[1].animationFrame /\ n = EffectiveElement)
            /\ observed[1] \subseteq {"floating", "reference", "context"}
       ELSE /\ resizeObserver[1] = "null"
            /\ observed[1] = {} /\ active[1] = {}

\* C16 witness: a virtual reference with a contextElement, elementResize true
\* and animationFrame false: the contextElement and the floating element are
\* observed.
C16_Witness ==
    /\ Running(1) /\ disposals[1] = 0
    /\ ~isElement(reference) /\ reference.contextElement # "null"
    /\ options[1].elementResize /\ ~options[1].animationFrame
    /\ observed[1] = {reference.contextElement, "floating"}

\* C17 (as claimed): in a trigger callback that received the rectangle, the
\* trigger is disconnected before any update call and before the next
\* animation frame is requested.
C17_DisconnectBeforeCompare ==
    last.op = "intersectionObserver" /\ Samples(last.trace) # {} =>
       /\ Positions(last.trace, "disconnect") # {}
       /\ \A j \in Positions(last.trace, "disconnect"),
             k \in Positions(last.trace, "update (poller)")
                      \cup Positions(last.trace, "requestAnimationFrame") : j < k

\* The effects of a trigger callback that received a rectangle and in which
\* the cleanup function was not called, in the order of lines 104-120.
CallbackOrders ==
    {<<"sample (first)", "requestAnimationFrame", "disconnect">>,
     <<"sample (same)", "requestAnimationFrame", "disconnect">>,
     <<"sample (changed)", "update (poller)", "requestAnimationFrame", "disconnect">>}

\* C17 (amended): a trigger callback that received the rectangle first
\* compares it, calls update if it changed, stores it and requests the next
\* animation frame, and disconnects the trigger as the last thing it does; it
\* takes one sample, and when it has returned no trigger is connected, so
\* each installed trigger delivers at most one sample.
C17_DisconnectLast ==
    /\ connected[1] <= 1
    /\ last.op = "intersectionObserver" /\ Samples(last.trace) # {} =>
          /\ Samples(last.trace) = {1}
          /\ "requestAnimationFrame" \in Range(last.trace)
          /\ connected[1] = 0 /\ intersectionObserver[1] = "null"
          /\ "cleanup" \notin Range(last.trace) => last.trace \in CallbackOrders

\* C17 witness: a trigger callback found the rectangle changed, called update
\* and then disconnected the trigger.
C17_Witness ==
    /\ last.op = "intersectionObserver"
    /\ last.trace = <<"sample (changed)", "update (poller)",
                      "requestAnimationFrame", "disconnect">>
    /\ disposals[1] = 0

\* C18: with animationFrame true and a reference that is an element, in every
\* state after autoUpdate has returned and before the cleanup function is
\* called, the poller waits on exactly one thing, a connected trigger or a
\* pending animation frame; with animationFrame false there is never a
\* trigger or a frame request, and the stored rectangle stays unset.
C18_PollerWaitsOnOneThing ==
    Running(1) /\ disposals[1] = 0 =>
       /\ options[1].animationFrame /\ isElement(reference)
             => /\ connected[1] + Cardinality(frames[1]) = 1
                /\ connected[1] = 1 <=> intersectionObserver[1] # "null"
                /\ frames[1] \subseteq {frameId[1]}
       /\ ~options[1].animationFrame
             => /\ connected[1] = 0 /\ intersectionObserver[1] = "null"
                /\ frames[1] = {} /\ frameId[1] = 0
                /\ prevRefRect[1] = NoRect

\* C18 witness: the second trigger of a polled element is connected: a sample
\* was taken, its frame has run, and the poller waits on the trigger alone.
C18_Witness ==
    /\ Running(1) /\ disposals[1] = 0
    /\ options[1].animationFrame /\ isElement(reference)
    /\ last.op = "animationFrame"
    /\ prevRefRect[1] # NoRect
    /\ connected[1] = 1 /\ frames[1] = {}

----------------------------------------------------------------------------
(* The two sampling paths side by side *)

\* The state in which a sample is about to be taken: no frame pending.
AtSample == [Here EXCEPT !.frames[1] = {}, !.trace = <<>>]

\* The sample of rectangle r taken by the trigger callback.
ViaTrigger(r, d) == TriggerCallback(AtSample, 1, <<[boundingClientRect |-> r]>>, d)

\* The sample of rectangle r taken by reading the geometry.
ViaRead(r, d) == DirectSample([AtSample EXCEPT !.refRect = r], 1, d)

\* What a sample decided: how it was classified, whether update was called,
\* what was stored and which frame was requested.
Decision(W) ==
    [sample |-> W.trace[1], updates |-> PollerUpdates(W.trace), calls |-> W.calls,
     stored |-> W.prevRefRect[1], frameId |-> W.frameId[1]]

\* C19: from every state in which the poller waits for its next sample
\* (a trigger connected or a frame pending), with whatever snapshot is stored,
\* the trigger callback and the direct read, given the same rectangle, make
\* the same decision: update is called by both or by neither, and both store
\* the rectangle and request a frame; so fed the same sequence of rectangles
\* the two paths call update on the same samples.
C19_PathsAgree ==
    Polling /\ (connected[1] > 0 \/ frames[1] # {}) =>
       \A r \in Rects, d \in BOOLEAN :
          LET read == Decision(ViaRead(r, d))
          IN  /\ Decision(ViaTrigger(r, d)) = read
              /\ read.stored = r
              /\ read.updates = (IF prevRefRect[1] \notin {NoRect, r} THEN 1 ELSE 0)

\* C19 witness: the poller has stored a rectangle and the reference has since
\* changed in width alone, so the next sample of either path calls update.
C19_Witness ==
    /\ Polling /\ disposals[1] = 0
    /\ prevRefRect[1] # NoRect
    /\ prevRefRect[1].width # refRect.width
    /\ prevRefRect[1].x = refRect.x /\ prevRefRect[1].y = refRect.y
    /\ prevRefRect[1].height = refRect.height
    /\ PollerUpdates(ViaTrigger(refRect, FALSE).trace) = 1
    /\ PollerUpdates(ViaRead(refRect, FALSE).trace) = 1

\* C20 (as claimed): after a call of the cleanup function from outside, the
\* three slots resizeObserver, intersectionObserver and frameId are all null.
C20_AllSlotsNullAfterCleanup ==
    last.op = "cleanup" =>
       /\ resizeObserver[1] = "null"
       /\ intersectionObserver[1] = "null"
       /\ frameId[1] = 0

\* C20 (amended): a call of the cleanup function from outside tests each of
\* the three slots before releasing it and never throws; it leaves
\* resizeObserver and intersectionObserver null, but frameId keeps the handle
\* of the last request, the frame of that handle being no longer pending.
C20_CleanupResetsObserverSlotsOnly ==
    [][ disposals'[1] = disposals[1] + 1 /\ last'.op = "cleanup" =>
           /\ ~error'
           /\ resizeObserver'[1] = "null"
           /\ intersectionObserver'[1] = "null"
           /\ connected'[1] = 0 /\ observed'[1] = {}
           /\ frameId'[1] = frameId[1]
           /\ frames'[1] = frames[1] \ {frameId[1]} ]_vars

\* C20 witness: the cleanup function has been called twice for a call with a
\* ResizeObserver and a poller that had requested a frame: frameId still
\* holds the handle.
C20_Witness ==
    /\ disposals[1] = 2
    /\ disposedFrom[1] = {"outside"}
    /\ last.op = "cleanup"
    /\ options[1].elementResize /\ options[1].animationFrame
    /\ frameId[1] # 0
    /\ resizeObserver[1] = "null" /\ intersectionObserver[1] = "null"
    /\ ~error

====
